---- MODULE Spec2Model ----
(***************************************************************************)
(* pcb2gcode autoleveller (src/autoleveller.cpp): the probe grid planner,  *)
(* the probing program written by header()/footerNoIf() and run by the     *)
(* controller, and the point corrector (addChainPoint, g01Corrected).      *)
(*                                                                         *)
(* Numbers.  A C++ double is an exact rational <<n, d>> (d > 0, lowest     *)
(* terms); lengths handed in by the caller are integers.  The text written *)
(* with "%.5f" is rounded to RelScale-ths as printf rounds it.  Text       *)
(* written at the stream's default precision is taken at full precision.   *)
(* A division by a zero spacing and the conversion of its result to an     *)
(* integer have no defined outcome: the model records the division in      *)
(* zeroDiv and lets the outcome range over a small set.                    *)
(***************************************************************************)
EXTENDS Integers, Sequences, FiniteSets, TLC

VARIABLES
    \* constructor arguments and options (lines 51-95), fixed afterwards
    software,             \* LINUXCNC, MACH3, MACH4 or CUSTOM
    feedrate,             \* TRUE iff the feedrate string is not empty
    quantization_error,
    xoffset, yoffset,
    XProbeDistRequired, YProbeDistRequired,
    tileInfo,             \* [enabled, boardWidth, boardHeight, tileX, tileY]
    toolpaths,            \* the argument of prepareWorkarea
    returnVar,            \* the first code of the global variable allocator
    \* fields set by prepareWorkarea
    startPointX, startPointY,
    numXPoints, numYPoints,
    XProbeDist, YProbeDist, averageProbeDist,
    \* the point corrector
    lastPoint,            \* the Cursor
    lastCall,             \* the last call made by the generator, with its result
    out,                  \* corrected moves written and not yet run
    zeroDiv,              \* TRUE once a zero spacing has been used as a divisor
    \* the generator's position
    pc,
    \* the controller running the written program
    mpc,                  \* idle, driver, xsub, inline, ready
    mem,                  \* numbered parameters written so far
    iter,                 \* [x, y, dir, rows]: the four global iterators
    repeatX, repeatY,     \* calls left in the two counted loops
    program,              \* CUSTOM: the unrolled probes still to run
    probeLog,             \* every table store so far, in order
    lastExec              \* the last corrected move run by the controller

vars == << software, feedrate, quantization_error, xoffset, yoffset,
           XProbeDistRequired, YProbeDistRequired, tileInfo, toolpaths,
           returnVar, startPointX, startPointY, numXPoints, numYPoints,
           XProbeDist, YProbeDist, averageProbeDist,
           lastPoint, lastCall, out, zeroDiv, pc,
           mpc, mem, iter, repeatX, repeatY, program, probeLog, lastExec >>

options == << software, feedrate, quantization_error, xoffset, yoffset,
              XProbeDistRequired, YProbeDistRequired, tileInfo, toolpaths,
              returnVar >>

gridVars == << startPointX, startPointY, numXPoints, numYPoints,
               XProbeDist, YProbeDist, averageProbeDist >>

machineVars == << mpc, mem, iter, repeatX, repeatY, program, probeLog, lastExec >>

-----------------------------------------------------------------------------
(* Bounds of the model *)

\* toolpath and call coordinates range over 0..MaxCoord
MaxCoord == 3

-----------------------------------------------------------------------------
(* Program constants *)

LinuxCncCeiling == 4501
OtherCeiling == 500
FirstVar == 500
\* "%.5f": five decimals
RelScale == 100000
\* line 346: the parameter the inline fragment assigns its result to
InterpVar == 3
\* line 267: the parameter header() sets to the working depth for CUSTOM
DepthVar == 4
\* line 63: the working depth option, in output units
zwork == -1

Softwares == {"LINUXCNC", "MACH3", "MACH4", "CUSTOM"}

\* cfactor (line 57) for output in the units of the input
cfactor == 1

-----------------------------------------------------------------------------
(* Exact arithmetic on doubles *)

Abs(a) == IF a < 0 THEN -a ELSE a

RECURSIVE GCD(_, _)
GCD(a, b) == IF b = 0 THEN a ELSE GCD(b, a % b)

\* the rational n/d in lowest terms, d # 0
Rat(n, d) ==
    LET s == IF d < 0 THEN -1 ELSE 1
        g == GCD(Abs(n), Abs(d))
    IN  << (s * n) \div g, (s * d) \div g >>

RInt(k) == << k, 1 >>

RAdd(a, b) == Rat(a[1] * b[2] + b[1] * a[2], a[2] * b[2])

RSub(a, b) == Rat(a[1] * b[2] - b[1] * a[2], a[2] * b[2])

RMul(a, b) == Rat(a[1] * b[1], a[2] * b[2])

\* a / b, b # 0
RDiv(a, b) == Rat(a[1] * b[2], a[2] * b[1])

RNeg(a) == a[1] < 0

RFloor(a) == a[1] \div a[2]

\* C round(): to the nearest integer, halves away from zero; num >= 0, den > 0
Round(num, den) == (2 * num + den) \div (2 * den)

-----------------------------------------------------------------------------
(* getVarName (lines 97-100): the number of the parameter of grid point
   (i, j); the emitted text is '#' followed by this number *)

getVarNameByX(i, j) == i * numXPoints + j + FirstVar

getVarName(i, j) == i * numYPoints + j + FirstVar

-----------------------------------------------------------------------------
(* Workarea Calculator and Probe Grid Planner *)

AllPoints(paths) ==
    UNION { { paths[k][m] : m \in 1..Len(paths[k]) } : k \in 1..Len(paths) }

SetMin(S) == CHOOSE a \in S : \A b \in S : a <= b

SetMax(S) == CHOOSE a \in S : \A b \in S : a >= b

\* lines 141-171; every path holds at least one point
computeWorkarea(paths) ==
    LET xs == { p[1] : p \in AllPoints(paths) }
        ys == { p[2] : p \in AllPoints(paths) }
    IN  [ minX |-> SetMin(xs) - (xoffset + quantization_error),
          minY |-> SetMin(ys) - (yoffset + quantization_error),
          maxX |-> SetMax(xs) - (xoffset - quantization_error),
          maxY |-> SetMax(ys) - (yoffset - quantization_error) ]

\* lines 110-113
workareaLenX ==
    LET workarea == computeWorkarea(toolpaths)
    IN  (workarea.maxX - workarea.minX) * cfactor
          + tileInfo.boardWidth * cfactor * (tileInfo.tileX - 1)

workareaLenY ==
    LET workarea == computeWorkarea(toolpaths)
    IN  (workarea.maxY - workarea.minY) * cfactor
          + tileInfo.boardHeight * cfactor * (tileInfo.tileY - 1)

NumPointsTruncating(len, required) ==
    LET temp == len \div required
    IN  IF temp > 1 THEN temp + 1 ELSE 2

\* lines 118-128: the number of probe points of one axis
NumPoints(len, required) ==
    LET temp == Round(len, required)
    IN  IF temp > 1 THEN temp + 1 ELSE 2

GridAcceptedInclusive(sw, nx, ny) ==
    ~ (  (sw = "LINUXCNC" /\ nx * ny >= LinuxCncCeiling)
      \/ (sw # "LINUXCNC" /\ nx * ny >= OtherCeiling) )

\* lines 134-138: the value prepareWorkarea returns
GridAccepted(sw, nx, ny) ==
    ~ (  (sw = "LINUXCNC" /\ nx * ny > LinuxCncCeiling)
      \/ (sw # "LINUXCNC" /\ nx * ny > OtherCeiling) )

NoCall == [ op |-> "none" ]

NoExec == [ kind |-> "none" ]

\* lines 102-139
PrepareWorkarea ==
    /\ pc = "constructed"
    /\ LET workarea == computeWorkarea(toolpaths)
           nx == NumPoints(workareaLenX, XProbeDistRequired)
           ny == NumPoints(workareaLenY, YProbeDistRequired)
           xd == Rat(workareaLenX, nx - 1)
           yd == Rat(workareaLenY, ny - 1)
       IN  /\ startPointX' = workarea.minX * cfactor
           /\ startPointY' = workarea.minY * cfactor
           /\ numXPoints' = nx
           /\ numYPoints' = ny
           /\ XProbeDist' = xd
           /\ YProbeDist' = yd
           /\ averageProbeDist' = RDiv(RAdd(xd, yd), RInt(2))
           /\ lastCall' = [ op |-> "prepareWorkarea",
                            result |-> GridAccepted(software, nx, ny) ]
           /\ pc' = IF GridAccepted(software, nx, ny) THEN "planned" ELSE "rejected"
    /\ UNCHANGED << options, lastPoint, out, zeroDiv, machineVars >>

-----------------------------------------------------------------------------
(* Initial states: the object after construction (lines 51-95) *)

\* line 80: returnVar is the first code the global variable allocator hands
\* out; the allocator is a collaborator, so the code is any it may start at
GlobalCodes == { InterpVar, 100 }

NoTiling == [ enabled |-> FALSE, boardWidth |-> 0, boardHeight |-> 0,
              tileX |-> 1, tileY |-> 1 ]

Constructed(sw, fr, sc) ==
    /\ software = sw
    /\ feedrate = fr
    /\ quantization_error = sc.qe
    /\ xoffset = sc.xo
    /\ yoffset = sc.yo
    /\ XProbeDistRequired = sc.rx
    /\ YProbeDistRequired = sc.ry
    /\ tileInfo = sc.tile
    /\ toolpaths = sc.paths
    /\ returnVar \in GlobalCodes
    /\ startPointX = 0 /\ startPointY = 0
    /\ numXPoints = 0 /\ numYPoints = 0
    /\ XProbeDist = RInt(0) /\ YProbeDist = RInt(0) /\ averageProbeDist = RInt(0)
    /\ lastPoint = << 0, 0 >>
    /\ lastCall = NoCall
    /\ out = << >>
    /\ zeroDiv = FALSE
    /\ pc = "constructed"
    /\ mpc = "idle"
    /\ mem = << >>
    /\ iter = [ x |-> 0, y |-> 0, dir |-> 0, rows |-> 0 ]
    /\ repeatX = 0 /\ repeatY = 0
    /\ program = << >>
    /\ probeLog = << >>
    /\ lastExec = NoExec

Scenario(paths, rx, ry, qe, xo, yo, tile) ==
    [ paths |-> paths, rx |-> rx, ry |-> ry, qe |-> qe, xo |-> xo, yo |-> yo,
      tile |-> tile ]

\* boards for the planner alone: a single path across a w x h box
PlanBoxes == { <<5, 5>>, <<8, 7>>, <<100, 80>>, <<19, 24>>, <<2, 166>>,
               <<6, 642>>, <<6, 643>>, <<0, 0>>, <<0, 30>> }

PlanSpacings == { 1, 3, 10 }

PlanTilings == { NoTiling,
                 [ enabled |-> TRUE, boardWidth |-> 100, boardHeight |-> 80,
                   tileX |-> 2, tileY |-> 1 ] }

PlanScenarios ==
    { Scenario(<< << <<0, 0>>, <<b[1], b[2]>> >> >>, rx, ry, qe, 0, 0, t) :
        b \in PlanBoxes, rx \in PlanSpacings, ry \in PlanSpacings,
        qe \in {0, 1}, t \in PlanTilings }

InitPlan ==
    \E sw \in Softwares, sc \in PlanScenarios : Constructed(sw, TRUE, sc)

SpecPlan == InitPlan /\ [][PrepareWorkarea]_vars

-----------------------------------------------------------------------------
(* The probing program: header() (lines 173-269) writes it, the controller
   runs it *)

RECURSIVE CustomRow(_, _, _, _)
\* lines 231-238: the while loop of row i
CustomRow(i, j, incr_decr, acc) ==
    IF j >= 0 /\ j <= numYPoints - 1
    THEN CustomRow(i, j + incr_decr, incr_decr,
                   Append(acc, [ i |-> i, j |-> j, slot |-> getVarName(i, j) ]))
    ELSE [ j |-> j, acc |-> acc ]

RECURSIVE CustomRows(_, _, _, _)
\* lines 229-241: the for loop over the rows
CustomRows(i, j, incr_decr, acc) ==
    IF i < numXPoints
    THEN LET row == CustomRow(i, j, incr_decr, acc)
         IN  CustomRows(i + 1, row.j + (-incr_decr), -incr_decr, row.acc)
    ELSE acc

CustomTraversalFromOrigin == CustomRows(0, 0, 1, << >>)

\* lines 182-183 and 229-241: the probes header() unrolls for CUSTOM
CustomTraversal == CustomRows(0, 1, 1, << >>)

DriverRowsFull == [ x |-> 0, y |-> 1, dir |-> 1, rows |-> numYPoints ]

\* lines 221-224: the iterators the driver sets before the counted loop
DriverIterators == [ x |-> 0, y |-> 1, dir |-> 1, rows |-> numYPoints - 1 ]

\* lines 173-269
Header ==
    /\ pc = "planned"
    /\ pc' = "toolpath"
    /\ program' = IF feedrate /\ software = "CUSTOM" THEN CustomTraversal ELSE << >>
    /\ lastCall' = [ op |-> "header" ]
    /\ UNCHANGED << options, gridVars, lastPoint, out, zeroDiv,
                    mpc, mem, iter, repeatX, repeatY, probeLog, lastExec >>

\* the value the probe leaves in the result parameter (lines 41, 59) at grid
\* point (i, j): a surface that is neither flat nor a plane
ProbeResult(i, j) == 1 + ((2 * i + 3 * j + i * j) % 5)

\* the value of a numbered parameter; one the program never wrote holds
\* whatever was there before
Read(idx) == IF idx \in DOMAIN mem THEN mem[idx] ELSE 9

\* lines 266-267: the header ends with "#4 = zwork" for CUSTOM only
DepthSet == IF software = "CUSTOM" THEN (DepthVar :> zwork) @@ mem ELSE mem

\* lines 200-210 and 219-226: the reference probe, "#500 = 0", and for the
\* dialects with subroutines the iterators and the counted loop of line 225
MachineStart ==
    /\ pc = "toolpath"
    /\ mpc = "idle"
    /\ IF feedrate
       THEN /\ mem' = (FirstVar :> 0)
            /\ probeLog' = << [ kind |-> "ref", i |-> 0, j |-> 0, slot |-> FirstVar ] >>
            /\ IF software # "CUSTOM"
               THEN /\ iter' = DriverIterators
                    /\ repeatX' = numXPoints
                    /\ mpc' = "driver"
               ELSE /\ mpc' = "inline"
                    /\ UNCHANGED << iter, repeatX >>
       ELSE /\ mpc' = "ready"
            /\ mem' = DepthSet
            /\ UNCHANGED << probeLog, iter, repeatX >>
    /\ UNCHANGED << options, gridVars, lastPoint, lastCall, out, zeroDiv, pc,
                    repeatY, program, lastExec >>

\* lines 233-236: one unrolled probe and its store
MachineInlineProbe ==
    /\ mpc = "inline"
    /\ program # << >>
    /\ LET p == Head(program)
       IN  /\ mem' = (p.slot :> ProbeResult(p.i, p.j)) @@ mem
           /\ probeLog' = Append(probeLog,
                 [ kind |-> "probe", i |-> p.i, j |-> p.j, slot |-> p.slot ])
    /\ program' = Tail(program)
    /\ UNCHANGED << options, gridVars, lastPoint, lastCall, out, zeroDiv, pc,
                    mpc, iter, repeatX, repeatY, lastExec >>

\* line 225: the driver calls the X probe subroutine, which starts its
\* counted loop (line 324) over the current row count
MachineCallXProbe ==
    /\ mpc = "driver"
    /\ repeatX > 0
    /\ repeatX' = repeatX - 1
    /\ repeatY' = iter.rows
    /\ mpc' = "xsub"
    /\ UNCHANGED << options, gridVars, lastPoint, lastCall, out, zeroDiv, pc,
                    mem, iter, program, probeLog, lastExec >>

\* lines 312-321: the Y probe subroutine
MachineYProbe ==
    /\ mpc = "xsub"
    /\ repeatY > 0
    /\ LET slot == iter.x * numYPoints + iter.y + FirstVar
       IN  /\ mem' = (slot :> ProbeResult(iter.x, iter.y)) @@ mem
           /\ probeLog' = Append(probeLog,
                 [ kind |-> "probe", i |-> iter.x, j |-> iter.y, slot |-> slot ])
    /\ iter' = [ iter EXCEPT !.y = iter.y + iter.dir ]
    /\ repeatY' = repeatY - 1
    /\ UNCHANGED << options, gridVars, lastPoint, lastCall, out, zeroDiv, pc,
                    mpc, repeatX, program, lastExec >>

\* lines 325-329: the X probe subroutine after its counted loop
MachineXProbeReturn ==
    /\ mpc = "xsub"
    /\ repeatY = 0
    /\ iter' = [ rows |-> numYPoints,
                 dir  |-> 0 - iter.dir,
                 y    |-> iter.y + (0 - iter.dir),
                 x    |-> iter.x + 1 ]
    /\ mpc' = "driver"
    /\ UNCHANGED << options, gridVars, lastPoint, lastCall, out, zeroDiv, pc,
                    mem, repeatX, repeatY, program, probeLog, lastExec >>

\* the probing program has run to its end
MachineProbingDone ==
    /\ \/ mpc = "driver" /\ repeatX = 0
       \/ mpc = "inline" /\ program = << >>
    /\ mpc' = "ready"
    /\ mem' = DepthSet
    /\ UNCHANGED << options, gridVars, lastPoint, lastCall, out, zeroDiv, pc,
                    iter, repeatX, repeatY, program, probeLog, lastExec >>

-----------------------------------------------------------------------------
(* Point Corrector *)

\* what an out-of-range conversion of a double to unsigned int may give
UndefinedCounts == { 0, 1, 3 }

\* what the controller may make of a formula written with a division by zero
UndefinedValues == { 0, 9 }

ZeroSpacing == XProbeDist[1] = 0 \/ YProbeDist[1] = 0

\* lines 387-394: the spacing the distance is divided by (abs taken on the
\* doubles)
StepFor(point) ==
    IF Abs(lastPoint[1] - point[1]) <= quantization_error
    THEN YProbeDist
    ELSE IF Abs(lastPoint[2] - point[2]) <= quantization_error
         THEN XProbeDist
         ELSE averageProbeDist

RECURSIVE LeastCount(_, _, _)
\* the least n >= k with n * step >= sqrt(d2), step > 0
LeastCount(k, d2, step) ==
    IF (k * step[1]) * (k * step[1]) >= d2 * step[2] * step[2]
    THEN k
    ELSE LeastCount(k + 1, d2, step)

\* lines 384-395: the values numOfSubsegments(point) may return
numOfSubsegments(point) ==
    LET dx == lastPoint[1] - point[1]
        dy == lastPoint[2] - point[2]
        step == StepFor(point)
    IN  IF step[1] = 0
        THEN UndefinedCounts
        ELSE { LeastCount(0, dx * dx + dy * dy, step) }

splitSegmentFromCursor(point, n) ==
    [ i \in 1..n |->
        << RAdd(RInt(lastPoint[1]), Rat((point[1] - lastPoint[1]) * (i - 1), n)),
           RAdd(RInt(lastPoint[2]), Rat((point[2] - lastPoint[2]) * (i - 1), n)) >> ]

\* lines 397-407
splitSegment(point, n) ==
    [ i \in 1..n |->
        << RAdd(RInt(lastPoint[1]), Rat((point[1] - lastPoint[1]) * i, n)),
           RAdd(RInt(lastPoint[2]), Rat((point[2] - lastPoint[2]) * i, n)) >> ]

\* "%.5f" of a value >= 0, in units of 1/RelScale
Fmt5(r) == (2 * r[1] * RelScale + r[2]) \div (2 * r[2])

\* lines 334-352: the fragment interpolatePoint writes for a point; its last
\* assignment is to parameter InterpVar whatever the weights are
interpolatePoint(pt) ==
    IF ZeroSpacing
    THEN [ defined |-> FALSE, assigns |-> InterpVar ]
    ELSE LET xminindex == RFloor(RDiv(RSub(pt[1], RInt(startPointX)), XProbeDist))
             yminindex == RFloor(RDiv(RSub(pt[2], RInt(startPointY)), YProbeDist))
             x_minus_x0_rel ==
                 RDiv(RSub(RSub(pt[1], RInt(startPointX)),
                           RMul(RInt(xminindex), XProbeDist)), XProbeDist)
             y_minus_y0_rel ==
                 RDiv(RSub(RSub(pt[2], RInt(startPointY)),
                           RMul(RInt(yminindex), YProbeDist)), YProbeDist)
         IN  [ defined |-> TRUE,
               ul |-> getVarName(xminindex, yminindex + 1),
               ur |-> getVarName(xminindex + 1, yminindex + 1),
               ll |-> getVarName(xminindex, yminindex),
               lr |-> getVarName(xminindex + 1, yminindex),
               yrel |-> Fmt5(y_minus_y0_rel),
               xrel |-> Fmt5(x_minus_x0_rel),
               assigns |-> InterpVar ]

IsSubDialect == software \in { "LINUXCNC", "MACH4", "MACH3" }

\* lines 362-370: the corrected move written for one sub-segment end
ChainMove(pt) ==
    IF IsSubDialect
    THEN [ kind |-> "call", target |-> pt ]
    ELSE [ kind |-> "inline", target |-> pt, frag |-> interpolatePoint(pt),
           xy |-> << Fmt5(pt[1]), Fmt5(pt[2]) >>, z |-> [ depth |-> { DepthVar }, corr |-> 3 ] ]

\* the points a caller may pass: integer points of the workarea
CallPoints ==
    { p \in (0..MaxCoord) \X (0..MaxCoord) :
        /\ startPointX <= p[1] /\ p[1] <= startPointX + workareaLenX
        /\ startPointY <= p[2] /\ p[2] <= startPointY + workareaLenY }

\* The model follows the written program in file order: a correction is
\* written once the controller has run everything written before it, and
\* lastExec describes the moves of the correction written last.
CanCorrect == pc = "toolpath" /\ mpc = "ready" /\ out = << >>

CursorKept(point) == lastPoint

\* line 372: the Cursor after addChainPoint(point)
CursorAfterChainPoint(point) == point

\* lines 354-374
AddChainPoint(point) ==
    /\ CanCorrect
    /\ \E n \in numOfSubsegments(point) :
         LET subsegments == splitSegment(point, n)
         IN  /\ out' = [ i \in 1..n |-> ChainMove(subsegments[i]) ]
             /\ lastCall' = [ op |-> "addChainPoint", point |-> point,
                              before |-> lastPoint, n |-> n,
                              subsegments |-> subsegments ]
             /\ zeroDiv' = (zeroDiv \/ StepFor(point)[1] = 0
                                    \/ (~ IsSubDialect /\ n > 0 /\ ZeroSpacing))
    /\ lastPoint' = CursorAfterChainPoint(point)
    /\ lastExec' = NoExec
    /\ UNCHANGED << options, gridVars, pc, mpc, mem, iter, repeatX, repeatY,
                    program, probeLog >>

\* lines 376-382
G01Corrected(point) ==
    /\ CanCorrect
    /\ out' = IF IsSubDialect
              THEN << [ kind |-> "call", target |-> << RInt(point[1]), RInt(point[2]) >> ] >>
              ELSE << [ kind |-> "inline",
                        target |-> << RInt(point[1]), RInt(point[2]) >>,
                        frag |-> interpolatePoint(<< RInt(point[1]), RInt(point[2]) >>),
                        xy |-> << >>, z |-> [ depth |-> { }, corr |-> returnVar ] ] >>
    /\ lastCall' = [ op |-> "g01Corrected", point |-> point, before |-> lastPoint ]
    /\ zeroDiv' = (zeroDiv \/ (~ IsSubDialect /\ ZeroSpacing))
    /\ lastExec' = NoExec
    /\ UNCHANGED << lastPoint, options, gridVars, pc, mpc, mem, iter, repeatX,
                    repeatY, program, probeLog >>

-----------------------------------------------------------------------------
(* The controller running a corrected move *)

\* d * r for 0 <= r <= RelScale, as << hi, lo >> with d * r = hi * RelScale + lo
\* and 0 <= lo < RelScale (the product itself may exceed the machine word of
\* the checker)
MulWide(d, r) ==
    LET dh == d \div 1000
        dl == d % 1000
        t  == dh * r
        lo0 == (t % 100) * 1000 + dl * r
    IN  << (t \div 100) + (lo0 \div RelScale), lo0 % RelScale >>

\* line 346: the three assignments of an inline fragment; #1 and #2 in units
\* of 1/RelScale, #3 as << hi, lo >> in units of 1/RelScale^2
InlineValue(frag) ==
    LET r1 == Read(frag.ll) * RelScale + (Read(frag.ul) - Read(frag.ll)) * frag.yrel
        r2 == Read(frag.lr) * RelScale + (Read(frag.ur) - Read(frag.lr)) * frag.yrel
        w  == MulWide(r2 - r1, frag.xrel)
    IN  [ r1 |-> r1, r2 |-> r2, r3 |-> << r1 + w[1], w[2] >> ]

\* lines 286-295: the tile offsets #3 and #4 the subroutine may compute
TileOffsets ==
    IF tileInfo.enabled
    THEN { << tx * tileInfo.boardWidth * cfactor, ty * tileInfo.boardHeight * cfactor >> :
             tx \in 0..(tileInfo.tileX - 1), ty \in 0..(tileInfo.tileY - 1) }
    ELSE { << 0, 0 >> }

\* lines 296-308: the Z-correction subroutine called with X, Y; the spacings
\* written into it are not zero
ZCorrection(X, Y, off) ==
    LET r5 == RFloor(RDiv(RAdd(RSub(X, RInt(startPointX)), RInt(off[1])), XProbeDist))
        r6 == RFloor(RDiv(RAdd(RSub(Y, RInt(startPointY)), RInt(off[2])), YProbeDist))
        r7 == r5 * numYPoints + (r6 + 1) + FirstVar
        r8 == (r5 + 1) * numYPoints + (r6 + 1) + FirstVar
        r9 == r5 * numYPoints + r6 + FirstVar
        r10 == (r5 + 1) * numYPoints + r6 + FirstVar
        r11 == RDiv(RSub(RSub(RAdd(Y, RInt(off[2])), RInt(startPointY)),
                         RMul(RInt(r6), YProbeDist)), YProbeDist)
        r12 == RDiv(RSub(RSub(RAdd(X, RInt(off[1])), RInt(startPointX)),
                         RMul(RInt(r5), XProbeDist)), XProbeDist)
        r13 == RAdd(RInt(Read(r9)), RMul(RInt(Read(r7) - Read(r9)), r11))
        r14 == RAdd(RInt(Read(r10)), RMul(RInt(Read(r8) - Read(r10)), r11))
    IN  [ ul |-> r7, ur |-> r8, ll |-> r9, lr |-> r10, yrel |-> r11, xrel |-> r12,
          r15 |-> RAdd(r13, RMul(RSub(r14, r13), r12)) ]

\* the value the move adds to the working depth: the parameter its Z
\* expression reads, which holds the interpolation only if the fragment before
\* it assigned that parameter
CorrectionRead(m, interp) ==
    IF m.z.corr = m.frag.assigns THEN interp ELSE << Read(m.z.corr) * RelScale, 0 >>

DepthIsSet(m) == \A v \in m.z.depth : v \in DOMAIN mem

\* the controller runs the next corrected move of the program
ExecMove ==
    /\ mpc = "ready"
    /\ out # << >>
    /\ out' = Tail(out)
    /\ LET m == Head(out)
       IN  \/ /\ m.kind = "inline"
              /\ m.frag.defined
              /\ lastExec' = [ kind |-> "inline", target |-> m.target, defined |-> TRUE,
                               slots |-> << m.frag.ul, m.frag.ur, m.frag.ll, m.frag.lr >>,
                               interp |-> InlineValue(m.frag).r3, z |-> m.z,
                               corrRead |-> CorrectionRead(m, InlineValue(m.frag).r3),
                               depthSet |-> DepthIsSet(m) ]
              /\ UNCHANGED zeroDiv
           \/ /\ m.kind = "inline"
              /\ ~ m.frag.defined
              /\ \E u \in UndefinedValues :
                   lastExec' = [ kind |-> "inline", target |-> m.target,
                                 defined |-> FALSE,
                                 interp |-> << u * RelScale, 0 >>, z |-> m.z,
                                 corrRead |-> CorrectionRead(m, << u * RelScale, 0 >>),
                                 depthSet |-> DepthIsSet(m) ]
              /\ UNCHANGED zeroDiv
           \/ /\ m.kind = "call"
              /\ ~ ZeroSpacing
              /\ \E off \in TileOffsets :
                   LET r == ZCorrection(m.target[1], m.target[2], off)
                   IN  lastExec' = [ kind |-> "call", target |-> m.target,
                                     defined |-> TRUE,
                                     slots |-> << r.ul, r.ur, r.ll, r.lr >>,
                                     interp |-> r.r15, z |-> [ depth |-> { }, corr |-> 15 ],
                                     corrRead |-> r.r15, depthSet |-> TRUE ]
              /\ UNCHANGED zeroDiv
           \/ /\ m.kind = "call"
              /\ ZeroSpacing
              /\ \E u \in UndefinedValues :
                   lastExec' = [ kind |-> "call", target |-> m.target,
                                 defined |-> FALSE,
                                 interp |-> RInt(u), z |-> [ depth |-> { }, corr |-> 15 ],
                                 corrRead |-> RInt(u), depthSet |-> TRUE ]
              /\ zeroDiv' = TRUE
    /\ UNCHANGED << options, gridVars, lastPoint, lastCall, pc,
                    mpc, mem, iter, repeatX, repeatY, program, probeLog >>

-----------------------------------------------------------------------------
(* The whole run: plan, write the header, then correct toolpath points while
   the controller runs what has been written *)

\* one path across the board, corner to corner
Diagonal == << << <<0, 0>>, <<MaxCoord, MaxCoord - 1>> >> >>

Scenarios ==
    { Scenario(Diagonal, 2, 2, 0, 0, 0, NoTiling),
      Scenario(<< << <<1, 1>> >> >>, 2, 2, 0, 0, 0, NoTiling),
      Scenario(<< << <<1, 0>>, <<1, MaxCoord>> >> >>, 2, 1, 0, 0, 0, NoTiling),
      Scenario(<< << <<1, 1>>, <<2, 1>> >>, << <<2, 2>> >> >>, 1, 3, 1, 0, 0, NoTiling),
      Scenario(<< << <<1, 1>>, <<MaxCoord, MaxCoord>> >> >>, 1, 1, 0, 1, 1, NoTiling) }

\* every scenario under CUSTOM and under one dialect with subroutines; one
\* run of each kind without a probe feed rate
Configurations ==
    { << "CUSTOM", TRUE >>, << "LINUXCNC", TRUE >>, << "MACH3", TRUE >>,
      << "MACH4", TRUE >>, << "CUSTOM", FALSE >>, << "MACH3", FALSE >> }

Init ==
    \E c \in Configurations, sc \in Scenarios : Constructed(c[1], c[2], sc)

Next ==
    \/ PrepareWorkarea
    \/ Header
    \/ MachineStart
    \/ MachineInlineProbe
    \/ MachineCallXProbe
    \/ MachineYProbe
    \/ MachineXProbeReturn
    \/ MachineProbingDone
    \/ \E point \in CallPoints : AddChainPoint(point)
    \/ \E point \in CallPoints : G01Corrected(point)
    \/ ExecMove

Spec == Init /\ [][Next]_vars

-----------------------------------------------------------------------------
(* Properties *)

Planned == pc \in { "planned", "rejected" } /\ lastCall.op = "prepareWorkarea"

Ceiling == IF software = "LINUXCNC" THEN LinuxCncCeiling ELSE OtherCeiling

\* n points and spacing dist plan a span with the requested spacing req:
\* n - 1 is span / req rounded (halves up) when that is more than 1, else 1
AxisPlanned(n, dist, span, req) ==
    /\ n >= 2
    /\ n > 2 => /\ (2 * (n - 1) - 1) * req <= 2 * span
                /\ 2 * span < (2 * (n - 1) + 1) * req
    /\ n = 2 => 2 * span < 3 * req
    /\ dist[1] * (n - 1) = span * dist[2]

\* C1: prepareWorkarea returns false exactly when numXPoints * numYPoints is
\* greater than the ceiling of the dialect (4501 for LinuxCNC, 500 for the
\* others); a product equal to the ceiling is accepted, and the grid it leaves
\* behind on failure is the computed one, still over the ceiling.
GridCapacityGate ==
    Planned =>
        /\ (lastCall.result = FALSE) <=> (numXPoints * numYPoints > Ceiling)
        /\ (numXPoints * numYPoints = Ceiling) => lastCall.result = TRUE
        /\ (pc = "rejected") <=> (lastCall.result = FALSE)
        /\ Ceiling = (IF software = "LINUXCNC" THEN 4501 ELSE 500)
        /\ lastCall.result = FALSE =>
              /\ AxisPlanned(numXPoints, XProbeDist, workareaLenX, XProbeDistRequired)
              /\ AxisPlanned(numYPoints, YProbeDist, workareaLenY, YProbeDistRequired)

GridAtCeilingAccepted ==
    /\ Planned
    /\ software = "LINUXCNC"
    /\ numXPoints * numYPoints = 4501
    /\ lastCall.result = TRUE

\* C2: after prepareWorkarea each axis has numPoints >= 2, numPoints - 1 being
\* round(span / requested spacing) when that is greater than 1 and 1 otherwise,
\* and actual spacing * (numPoints - 1) = span; span 100 x 80 with spacing 10
\* gives 11 x 9 points and spacing 10, span 5 with spacing 10 gives 2 points and
\* spacing 5.
PlannedGrid ==
    Planned =>
        /\ AxisPlanned(numXPoints, XProbeDist, workareaLenX, XProbeDistRequired)
        /\ AxisPlanned(numYPoints, YProbeDist, workareaLenY, YProbeDistRequired)
        /\ (workareaLenX = 100 /\ XProbeDistRequired = 10)
              => (numXPoints = 11 /\ XProbeDist = << 10, 1 >>)
        /\ (workareaLenY = 80 /\ YProbeDistRequired = 10)
              => (numYPoints = 9 /\ YProbeDist = << 10, 1 >>)
        /\ (workareaLenX = 5 /\ XProbeDistRequired = 10)
              => (numXPoints = 2 /\ XProbeDist = << 5, 1 >>)

PlannedHundredByEighty ==
    /\ Planned
    /\ workareaLenX = 100 /\ workareaLenY = 80
    /\ XProbeDistRequired = 10 /\ YProbeDistRequired = 10
    /\ numXPoints = 11 /\ numYPoints = 9

\* C3: numOfSubsegments never returns zero, so every addChainPoint writes at
\* least one corrected move, also when the target is the cursor.
SubsegmentsNeverZero ==
    lastCall.op = "addChainPoint" => (lastCall.n >= 1 /\ Len(lastCall.subsegments) >= 1)

IsStep(r, a, b, i, n) == r[1] * n = (a * n + (b - a) * i) * r[2]

\* C5: splitSegment(point, n) returns n points, the i-th being
\* cursor + (point - cursor) * i / n: the last is point, for n = 1 the endpoint
\* is the only one, the cursor is not among them, and consecutive points are
\* equally far apart.
SplitSegmentPoints ==
    lastCall.op = "addChainPoint" =>
        LET c == lastCall
            sub == c.subsegments
            n == c.n
        IN  /\ Len(sub) = n
            /\ \A i \in 1..n :
                 /\ IsStep(sub[i][1], c.before[1], c.point[1], i, n)
                 /\ IsStep(sub[i][2], c.before[2], c.point[2], i, n)
            /\ n >= 1 => sub[n] = << RInt(c.point[1]), RInt(c.point[2]) >>
            /\ n = 1 => sub = << << RInt(c.point[1]), RInt(c.point[2]) >> >>
            /\ c.point # c.before =>
                 \A i \in 1..n : sub[i] # << RInt(c.before[1]), RInt(c.before[2]) >>
            /\ \A i \in 1..(n - 1) :
                 /\ RSub(sub[i + 1][1], sub[i][1]) = RSub(sub[1][1], RInt(c.before[1]))
                 /\ RSub(sub[i + 1][2], sub[i][2]) = RSub(sub[1][2], RInt(c.before[2]))

SegmentSplitInThree ==
    /\ lastCall.op = "addChainPoint"
    /\ lastCall.n >= 3
    /\ lastCall.point # lastCall.before
    /\ ~ ZeroSpacing

GridPoints == (0..(numXPoints - 1)) \X (0..(numYPoints - 1))

Stores(slot) == { k \in 1..Len(probeLog) : probeLog[k].slot = slot }

\* the probes of the log, without the reference assignment
Probes == [ k \in 1..(Len(probeLog) - 1) |->
              [ i |-> probeLog[k + 1].i, j |-> probeLog[k + 1].j,
                slot |-> probeLog[k + 1].slot ] ]

\* C6: for CUSTOM the unrolled program covers the grid in serpentine order:
\* every slot is assigned exactly once, (0,0) by the reference assignment and
\* every other one by one probe, the Y index of a probe is in
\* 0..numYPoints-1, the rows come in increasing X order with alternating Y
\* direction, and each probed point is next to the one before it.
CustomSerpentine ==
    (software = "CUSTOM" /\ feedrate /\ mpc \in { "inline", "ready" }) =>
        /\ \A k \in 1..Len(probeLog) :
             /\ << probeLog[k].i, probeLog[k].j >> \in GridPoints
             /\ probeLog[k].slot = getVarName(probeLog[k].i, probeLog[k].j)
             /\ (probeLog[k].kind = "ref") <=> (k = 1)
             /\ Cardinality(Stores(probeLog[k].slot)) = 1
        /\ probeLog[1].slot = FirstVar
        /\ \A k \in 1..(Len(probeLog) - 1) :
             LET a == probeLog[k]
                 b == probeLog[k + 1]
             IN  /\ Abs(a.i - b.i) + Abs(a.j - b.j) = 1
                 /\ a.i <= b.i
                 /\ a.i = b.i => b.j - a.j = (IF a.i % 2 = 0 THEN 1 ELSE -1)
        /\ mpc = "ready" =>
             /\ Len(probeLog) = numXPoints * numYPoints
             /\ \A g \in GridPoints : Cardinality(Stores(getVarName(g[1], g[2]))) = 1

CustomGridProbed ==
    /\ software = "CUSTOM" /\ feedrate /\ mpc = "ready"
    /\ numXPoints >= 3 /\ numYPoints >= 3
    /\ Len(probeLog) = numXPoints * numYPoints

\* the double at target e is the grid vertex (i, j)
AtVertex(e, i, j) ==
    /\ e.target[1] = RAdd(RInt(startPointX), RMul(RInt(i), XProbeDist))
    /\ e.target[2] = RAdd(RInt(startPointY), RMul(RInt(j), YProbeDist))

InterpIs(e, v) ==
    IF e.kind = "inline" THEN e.interp = << v * RelScale, 0 >> ELSE e.interp = RInt(v)

\* C7: the bilinear interpolation of a corrected move whose target is exactly
\* the grid vertex (i, j) is the value stored for that vertex, in the inline
\* formula and in the Z-correction subroutine, far edges included.
VertexInterpolation ==
    lastExec.kind # "none" =>
        \A g \in GridPoints :
            AtVertex(lastExec, g[1], g[2]) =>
                InterpIs(lastExec, Read(getVarName(g[1], g[2])))

SubroutineProbingMatchesCustom ==
    (software # "CUSTOM" /\ feedrate /\ mpc \in { "driver", "xsub", "ready" }) =>
        /\ \A k \in 1..Len(Probes) :
             /\ k <= Len(CustomTraversal)
             /\ Probes[k] = CustomTraversal[k]
             /\ << Probes[k].i, Probes[k].j >> \in GridPoints \ { << 0, 0 >> }
        /\ mpc = "ready" =>
             /\ Probes = CustomTraversal
             /\ \A g \in GridPoints \ { << 0, 0 >> } :
                  Cardinality({ k \in 1..Len(Probes) :
                                  << Probes[k].i, Probes[k].j >> = g }) = 1

SubroutineGridProbed ==
    /\ software = "MACH3" /\ feedrate /\ mpc = "ready"
    /\ numXPoints >= 3 /\ numYPoints >= 3
    /\ Len(probeLog) = numXPoints * numYPoints

\* C10: a spacing of zero is never used as a divisor, neither by
\* numOfSubsegments or interpolatePoint nor by the Z-correction subroutine.
NoZeroDivisor == zeroDiv = FALSE

\* C11: in the Custom dialect the Z of every corrected move, written by
\* addChainPoint or by g01Corrected, reads the parameter the interpolation
\* fragment just before it assigned, so the move adds the value that
\* interpolation computed to a working depth that has been set.
CorrectedMoveReadsInterpolation ==
    /\ \A k \in 1..Len(out) :
          out[k].kind = "inline" => out[k].z.corr = out[k].frag.assigns
    /\ lastExec.kind = "inline" =>
          /\ lastExec.z.corr = InterpVar
          /\ lastExec.corrRead = lastExec.interp
          /\ lastExec.depthSet

\* the grid slot of every neighbour the target lies between
Neighbours(e) ==
    LET i == RFloor(RDiv(RSub(e.target[1], RInt(startPointX)), XProbeDist))
        j == RFloor(RDiv(RSub(e.target[2], RInt(startPointY)), YProbeDist))
    IN  << << i, j + 1 >>, << i + 1, j + 1 >>, << i, j >>, << i + 1, j >> >>

InWorkarea(e) ==
    /\ ~ RNeg(RSub(e.target[1], RInt(startPointX)))
    /\ ~ RNeg(RSub(e.target[2], RInt(startPointY)))
    /\ ~ RNeg(RSub(RAdd(RInt(startPointX), RMul(RInt(numXPoints - 1), XProbeDist)), e.target[1]))
    /\ ~ RNeg(RSub(RAdd(RInt(startPointY), RMul(RInt(numYPoints - 1), YProbeDist)), e.target[2]))

\* C12: for a target inside the probed workarea, far edges included, the four
\* slots the correction reads (inline or in the subroutine) are slots of grid
\* points: slot k is index(i', j') of its neighbour with 0 <= i' < numXPoints
\* and 0 <= j' < numYPoints.
ReadsInsideTable ==
    (lastExec.kind # "none" /\ lastExec.defined /\ InWorkarea(lastExec)) =>
        \A k \in 1..4 :
            LET g == Neighbours(lastExec)[k]
            IN  /\ g \in GridPoints
                /\ lastExec.slots[k] = getVarName(g[1], g[2])
                /\ lastExec.slots[k] \in
                      FirstVar .. (FirstVar + numXPoints * numYPoints - 1)

====
